---- MODULE Spec2Model ----
(***************************************************************************)
(* Model of finance_dashboard.py: the category store and its persistence,  *)
(* the field normalizers, the CSV loader, the keyword categorizer and the  *)
(* Streamlit script runs (upload, plain rerun, Add category, Apply         *)
(* Changes).                                                               *)
(*                                                                         *)
(* Text that the code inspects character by character (cells, keywords,    *)
(* column names, category names) is a tuple of one-character strings.      *)
(* Amounts are integers counting tenths (one fractional digit).            *)
(***************************************************************************)
EXTENDS Integers, Sequences, FiniteSets, TLC

VARIABLES
    file,        \* content of categories.json on disk
    categories,  \* st.session_state.categories (dict, in insertion order)
    uploaded,    \* the file held by st.file_uploader, or NoFile
    df,          \* result of load_transactions in the last script run
    debits_df,   \* st.session_state.debits_df
    count,       \* the count reported by Apply Changes in the last run
    lastOp,      \* which script run happened last
    outcome,     \* how the last script run ended
    changes,     \* history: the (id, old, new, details) changes Apply made
    crash,       \* history: old/new file content of a save the process died in
    mutated,     \* history: the last script run changed the store
    mutations,   \* history: how many script runs have changed the store
    startFile    \* history: content of categories.json when the session began

vars == <<file, categories, uploaded, df, debits_df, count, lastOp, outcome,
          changes, crash, mutated, mutations, startFile>>

----------------------------------------------------------------------------
(* Bounds of the model *)

MaxRows == 2
MaxMutations == 1

----------------------------------------------------------------------------
(* Python str operations *)

UpperLetters == <<"A","B","C","D","E","F","G","H","I","J","K","L","M",
                  "N","O","P","Q","R","S","T","U","V","W","X","Y","Z">>
LowerLetters == <<"a","b","c","d","e","f","g","h","i","j","k","l","m",
                  "n","o","p","q","r","s","t","u","v","w","x","y","z">>
Digits == <<"0","1","2","3","4","5","6","7","8","9">>

IsSpace(c) == c = " "
DigitValues == [c \in {Digits[i] : i \in 1..10} |-> (CHOOSE i \in 1..10 : Digits[i] = c) - 1]
IsDigit(c) == c \in DOMAIN DigitValues
DigitVal(c) == DigitValues[c]

\* str.lower()
LowerOf ==
    [c \in {UpperLetters[i] : i \in 1..26} |->
        LowerLetters[CHOOSE i \in 1..26 : UpperLetters[i] = c]]
LowerChar(c) == IF c \in DOMAIN LowerOf THEN LowerOf[c] ELSE c
Lower(s) == [i \in 1..Len(s) |-> LowerChar(s[i])]

\* str.strip()
RECURSIVE LStrip(_)
LStrip(s) == IF s # <<>> /\ IsSpace(Head(s)) THEN LStrip(Tail(s)) ELSE s
RECURSIVE RStrip(_)
RStrip(s) ==
    IF s # <<>> /\ IsSpace(s[Len(s)]) THEN RStrip(SubSeq(s, 1, Len(s) - 1)) ELSE s
Strip(s) == RStrip(LStrip(s))

\* sub in s
Contains(sub, s) ==
    \E i \in 0..(Len(s) - Len(sub)) : SubSeq(s, i + 1, i + Len(sub)) = sub

NaN == [nan |-> TRUE]
Num(v) == [nan |-> FALSE, val |-> v]

RECURSIVE DigitsValue(_)
DigitsValue(s) ==
    IF s = <<>> THEN 0 ELSE DigitsValue(SubSeq(s, 1, Len(s) - 1)) * 10 + DigitVal(s[Len(s)])

AllDigits(s) == \A i \in 1..Len(s) : IsDigit(s[i])

\* A decimal literal without sign: digits, at most one point, at least one
\* digit, at most one digit after the point.  Value in tenths.
UnsignedOk(s) ==
    \/ s # <<>> /\ AllDigits(s)
    \/ \E p \in 1..Len(s) :
          /\ s[p] = "."
          /\ AllDigits(SubSeq(s, 1, p - 1))
          /\ AllDigits(SubSeq(s, p + 1, Len(s)))
          /\ Len(s) >= 2
          /\ Len(s) - p <= 1
UnsignedTenths(s) ==
    IF AllDigits(s) THEN DigitsValue(s) * 10
    ELSE LET p == CHOOSE q \in 1..Len(s) : s[q] = "."
         IN DigitsValue(SubSeq(s, 1, p - 1)) * 10 + DigitsValue(SubSeq(s, p + 1, Len(s)))

\* pd.to_numeric(errors="coerce") / float() on text made of digits, "." and "-"
ToNumber(s) ==
    IF s # <<>> /\ Head(s) = "-"
    THEN IF UnsignedOk(Tail(s)) THEN Num(0 - UnsignedTenths(Tail(s))) ELSE NaN
    ELSE IF UnsignedOk(s) THEN Num(UnsignedTenths(s)) ELSE NaN

Abs(x) == IF x < 0 THEN 0 - x ELSE x

----------------------------------------------------------------------------
(* Text constants of the program *)

Uncategorized == <<"U","n","c","a","t","e","g","o","r","i","z","e","d">>
ColDate == <<"D","a","t","e">>
ColDetails == <<"D","e","t","a","i","l","s">>
ColAmount == <<"A","m","o","u","n","t">>
ColDebitCredit == <<"D","e","b","i","t","/","C","r","e","d","i","t">>
ColCategory == <<"C","a","t","e","g","o","r","y">>

DateKeywords == << <<"d","a","t","e">> >>
DetailsKeywords == << <<"d","e","t","a","i","l">>,
                      <<"d","e","s","c","r","i","p","t","i","o","n">>,
                      <<"n","a","r","r","a","t","i","o","n">> >>
AmountKeywords == << <<"a","m","o","u","n","t">>, <<"a","m","t">>,
                     <<"v","a","l","u","e">> >>
DebitCreditKeywords == << <<"d","e","b","i","t">>, <<"c","r","e","d","i","t">>,
                          <<"t","y","p","e">> >>
DebitWords == << <<"d","e","b","i","t">>, <<"w","i","t","h","d","r","a","w">>,
                 <<"p","a","y","m","e","n","t">>, <<"d","r">> >>
CreditWords == << <<"c","r","e","d","i","t">>, <<"d","e","p","o","s","i","t">>,
                  <<"c","r">> >>

AnyIn(words, text) == \E i \in 1..Len(words) : Contains(words[i], text)

\* Python None where a column name is expected
None == <<"None">>

----------------------------------------------------------------------------
(* Category store and its persistence *)

\* {"Uncategorized": []}
DefaultCategories == << [name |-> Uncategorized, kws |-> <<>>] >>

Keys(store) == {store[i].name : i \in 1..Len(store)}
KeyIndex(store, k) == CHOOSE i \in 1..Len(store) : store[i].name = k
Keywords(store, k) == store[KeyIndex(store, k)].kws
SeqSet(s) == {s[i] : i \in 1..Len(s)}

Absent == [kind |-> "absent", doc |-> <<>>]
Corrupt == [kind |-> "corrupt", doc |-> <<>>]
Document(d) == [kind |-> "json", doc |-> d]
Partial(d) == [kind |-> "partial", doc |-> d]

\* json.dump of the dict: its items in order, as (key, value) pairs
json_dump(store) == [i \in 1..Len(store) |-> <<store[i].name, store[i].kws>>]

\* dict[key] = value: an existing key keeps its position
SetItem(store, k, v) ==
    IF k \in Keys(store)
    THEN [store EXCEPT ![KeyIndex(store, k)].kws = v]
    ELSE Append(store, [name |-> k, kws |-> v])

\* json.load of an object: a repeated key keeps its last value
RECURSIVE json_load_from(_, _)
json_load_from(store, d) ==
    IF d = <<>> THEN store
    ELSE json_load_from(SetItem(store, Head(d)[1], Head(d)[2]), Tail(d))
json_load(d) == json_load_from(<<>>, d)

\* Variant: the handler of a file that does not parse empties the dict
InitCategoryStorage_emptied(session, f) ==
    IF f.kind = "json" THEN json_load(f.doc)
    ELSE IF f.kind = "absent" THEN session
    ELSE <<>>

\* Lines 16-24 of a script run: keep the session's dict, and replace it by
\* the file's content when the file exists and parses.
InitCategoryStorage(session, f) ==
    IF f.kind = "json" THEN json_load(f.doc) ELSE session

\* Variant: the keyword lists are written empty
save_categories_names_only(store) ==
    Document([i \in 1..Len(store) |-> <<store[i].name, <<>> >>])

save_categories(store) == Document(json_dump(store))

\* What is on disk if the process dies inside save_categories: open(.., "w")
\* has truncated the file and k of the entries have been written.
CrashedSave(store, k) == Partial(SubSeq(json_dump(store), 1, k))

\* Variant: the keyword is appended as typed, without strip()
add_keyword_unstripped(st, category, keyword) ==
    IF keyword # <<>> /\ keyword \notin SeqSet(Keywords(st.categories, category))
    THEN LET new == SetItem(st.categories, category,
                            Append(Keywords(st.categories, category), keyword))
         IN [categories |-> new, file |-> save_categories(new)]
    ELSE st

\* Variant: the keyword is appended and save_categories() is not called
add_keyword_not_saved(st, category, keyword) ==
    LET kw == Strip(keyword)
    IN IF kw # <<>> /\ kw \notin SeqSet(Keywords(st.categories, category))
       THEN [st EXCEPT !.categories =
                SetItem(st.categories, category,
                        Append(Keywords(st.categories, category), kw))]
       ELSE st

\* add_keyword_to_category on the pair (store, file); raises KeyError for a
\* category that is no key (callers below never pass one)
add_keyword_to_category(st, category, keyword) ==
    LET kw == Strip(keyword)
    IN IF kw # <<>> /\ kw \notin SeqSet(Keywords(st.categories, category))
       THEN LET new == SetItem(st.categories, category,
                               Append(Keywords(st.categories, category), kw))
            IN [categories |-> new, file |-> save_categories(new)]
       ELSE st

----------------------------------------------------------------------------
(* Field normalizers *)

AmountChar(c) == IsDigit(c) \/ c = "." \/ c = "-"
NotComma(c) == c # ","

\* parse_amount on one cell
parse_amount(cell) == ToNumber(SelectSeq(SelectSeq(cell, NotComma), AmountChar))

\* normalize_debit_credit on one cell (cells are text, never missing)
normalize_debit_credit(val) ==
    LET s == Lower(Strip(val))
    IN IF AnyIn(DebitWords, s) THEN "Debit"
       ELSE IF AnyIn(CreditWords, s) THEN "Credit"
       ELSE IF ToNumber(s).nan THEN "nan"
       ELSE IF ToNumber(s).val < 0 THEN "Debit" ELSE "Credit"

----------------------------------------------------------------------------
(* Loading a CSV *)

\* find_col: the first column whose lower-cased name contains a keyword
RECURSIVE find_col_from(_, _, _)
find_col_from(cols, keywords, i) ==
    IF i > Len(cols) THEN None
    ELSE IF AnyIn(keywords, Lower(cols[i])) THEN cols[i]
    ELSE find_col_from(cols, keywords, i + 1)
find_col(cols, keywords) == find_col_from(cols, keywords, 1)

\* df.rename(columns={col_date: "Date", col_details: "Details",
\* col_amount: "Amount", col_dc: "Debit/Credit"}): in the dict literal a
\* repeated key keeps its last value
RenameColumns(cols, col_date, col_details, col_amount, col_dc) ==
    [i \in 1..Len(cols) |->
        IF cols[i] = col_dc THEN ColDebitCredit
        ELSE IF cols[i] = col_amount THEN ColAmount
        ELSE IF cols[i] = col_details THEN ColDetails
        ELSE IF cols[i] = col_date THEN ColDate
        ELSE cols[i]]

Where(names, n) == {i \in 1..Len(names) : names[i] = n}
The(S) == CHOOSE x \in S : TRUE

\* df[df["Amount"].notna()]: the positions (from 1) of the rows whose amount
\* parses, in order
RECURSIVE NotNaRows(_, _, _)
NotNaRows(rows, ia, i) ==
    IF i > Len(rows) THEN <<>>
    ELSE IF parse_amount(rows[i][ia]).nan THEN NotNaRows(rows, ia, i + 1)
    ELSE <<i>> \o NotNaRows(rows, ia, i + 1)

\* Variant: reset_index(drop=True) and a fresh 0..n-1 column
reset_index_renumbered(kept, k) == k - 1

\* reset_index().rename(columns={"index": "_orig_index"}): the index label
\* a row kept through the filter is its 0-based position in the file
reset_index(kept, k) == kept[k] - 1

\* Lines 132-137: the normalized column, missing values filled from the
\* sign of the amount, which is the absolute value by then
DebitCreditOf(cell, amount) ==
    LET dc == normalize_debit_credit(cell)
    IN IF dc = "nan"
       THEN IF amount < 0 THEN "Debit" ELSE "Credit"
       ELSE dc

Active(e) == e.name # Uncategorized /\ e.kws # <<>>

\* any(kw in r["Details"].lower() for kw in lowered)
KeywordMatch(kws, details) ==
    \E j \in 1..Len(kws) : Contains(Strip(Lower(kws[j])), Lower(details))

\* Variant: the passes run from the last category to the first, so the
\* first matching category in the dict's order is the one that stays
RECURSIVE categorize_first_match_wins(_, _, _)
categorize_first_match_wins(rows, store, i) ==
    IF i > Len(store) THEN rows
    ELSE LET e == store[Len(store) + 1 - i]
         IN IF ~Active(e) THEN categorize_first_match_wins(rows, store, i + 1)
            ELSE categorize_first_match_wins(
                    [k \in 1..Len(rows) |->
                        IF KeywordMatch(e.kws, rows[k].Details)
                        THEN [rows[k] EXCEPT !.Category = e.name]
                        ELSE rows[k]],
                    store, i + 1)

\* categorize_transactions: one pass per category, in the dict's order,
\* each pass overwriting the rows it matches
RECURSIVE categorize_from(_, _, _)
categorize_from(rows, store, i) ==
    IF i > Len(store) THEN rows
    ELSE IF ~Active(store[i]) THEN categorize_from(rows, store, i + 1)
    ELSE categorize_from(
            [k \in 1..Len(rows) |->
                IF KeywordMatch(store[i].kws, rows[k].Details)
                THEN [rows[k] EXCEPT !.Category = store[i].name]
                ELSE rows[k]],
            store, i + 1)
categorize_transactions(rows, store) == categorize_from(rows, store, 1)

Loaded(rows) == [err |-> "none", rows |-> rows]
Failed(e) == [err |-> e, rows |-> <<>>]

\* Lines 89-142 of load_transactions: the table before categorization.
\* "SchemaError" is the st.error/return None of line 110; "Exception" is an
\* exception that leaves the function: a canonical column that is missing
\* or doubled after the rename (KeyError at line 135 when no debit/credit
\* column was found).
clean_transactions(csv) ==
    LET cols == [i \in 1..Len(csv.header) |-> Strip(csv.header[i])]
        col_date == find_col(cols, DateKeywords)
        col_details == find_col(cols, DetailsKeywords)
        col_amount == find_col(cols, AmountKeywords)
        col_dc == find_col(cols, DebitCreditKeywords)
        names == RenameColumns(cols, col_date, col_details, col_amount, col_dc)
    IN IF col_details = None \/ col_amount = None THEN Failed("SchemaError")
       ELSE IF \/ Cardinality(Where(names, ColAmount)) # 1
               \/ Cardinality(Where(names, ColDebitCredit)) # 1
               \/ Cardinality(Where(names, ColDetails)) # 1
       THEN Failed("Exception")
       ELSE
         LET ia == The(Where(names, ColAmount))
             idc == The(Where(names, ColDebitCredit))
             idet == The(Where(names, ColDetails))
             kept == NotNaRows(csv.rows, ia, 1)
         IN Loaded([k \in 1..Len(kept) |->
                      LET r == csv.rows[kept[k]]
                          amount == Abs(parse_amount(r[ia]).val)
                      IN [orig_index |-> reset_index(kept, k),
                          Details |-> Strip(r[idet]),
                          Amount |-> amount,
                          DebitCredit |-> DebitCreditOf(r[idc], amount),
                          Category |->
                             IF Where(names, ColCategory) # {}
                             THEN r[The(Where(names, ColCategory))]
                             ELSE Uncategorized]])

\* df[df["Debit/Credit"] == "Debit"]
OnlyDebit(r) == r.DebitCredit = "Debit"
Debits(rows) == SelectSeq(rows, OnlyDebit)

----------------------------------------------------------------------------
(* Apply Changes, lines 210-225 *)

RowsWith(debits, orig) == {k \in 1..Len(debits) : debits[k].orig_index = orig}

\* The loop over edited.iterrows(), from row i on.  st holds the session's
\* debits_df and categories, the file, count, and err: "IndexError" when
\* .iloc[0] finds no row with the edit's _orig_index, "KeyError" when
\* add_keyword_to_category is given a category that is no key.
RECURSIVE apply_changes_from(_, _, _)
apply_changes_from(st, edited, i) ==
    IF i > Len(edited) THEN st
    ELSE
      LET row == edited[i]
          mask == RowsWith(st.debits, row.orig_index)
      IN IF mask = {} THEN [st EXCEPT !.err = "IndexError"]
         ELSE
           LET old_cat == st.debits[CHOOSE k \in mask : \A j \in mask : k <= j].Category
               set == [k \in 1..Len(st.debits) |->
                         IF k \in mask
                         THEN [st.debits[k] EXCEPT !.Category = row.Category]
                         ELSE st.debits[k]]
           IN IF row.Category = old_cat THEN apply_changes_from(st, edited, i + 1)
              ELSE IF row.Category \notin Keys(st.categories)
              THEN [st EXCEPT !.debits = set, !.err = "KeyError"]
              ELSE
                LET kw == add_keyword_to_category(
                             [categories |-> st.categories, file |-> st.file],
                             row.Category, row.Details)
                IN apply_changes_from(
                      [st EXCEPT !.debits = set,
                                 !.categories = kw.categories,
                                 !.file = kw.file,
                                 !.count = @ + 1,
                                 !.changes = Append(@, [id |-> row.orig_index,
                                                        old |-> old_cat,
                                                        new |-> row.Category,
                                                        details |-> row.Details])],
                      edited, i + 1)

apply_changes(debits, store, f, edited) ==
    apply_changes_from([debits |-> debits, categories |-> store, file |-> f,
                        count |-> 0, changes |-> <<>>, err |-> "none"],
                       edited, 1)

----------------------------------------------------------------------------
(* The inputs the model draws from *)

CatA == <<"A">>
CatB == <<"B">>
CatC == <<"C">>

\* What categories.json may hold when a session starts
PersistedFiles ==
    { Absent, Corrupt,
      Document(<< <<Uncategorized, << <<"b">> >> >>,
                  <<CatA, << <<"a">> >> >>,
                  <<CatB, << <<"A","b">> >> >>,
                  <<CatC, << <<" ","b">> >> >> >>),
      Document(<< <<CatA, << <<"a">> >> >>,
                  <<CatB, <<>> >>,
                  <<CatA, << <<"b">> >> >> >>) }

\* Header rows: the column names of a CSV, with the kind of cell each holds
Column(n, k) == [name |-> n, kind |-> k]
Headers ==
    { << Column(<<" ","D","a","t","e">>, "date"),
         Column(<<"N","a","r","r","a","t","i","o","n">>, "details"),
         Column(<<"A","m","t">>, "amount"),
         Column(<<"T","y","p","e">>, "dc") >>,
      << Column(ColDetails, "details"),
         Column(ColAmount, "amount"),
         Column(ColDebitCredit, "dc"),
         Column(ColCategory, "category") >>,
      << Column(ColDetails, "details"),
         Column(ColAmount, "amount") >>,
      << Column(ColDate, "date"),
         Column(<<"D","e","s","c","r","i","p","t","i","o","n">>, "details") >> }

\* A bank statement: data rows, one cell per kind of column.  The first
\* row's amount does not parse; the fourth has no usable debit/credit cell.
Statement ==
    << [date |-> <<>>, details |-> <<" ","b">>, amount |-> <<"x">>,
        dc |-> <<"c","r">>, category |-> <<>>],
       [date |-> <<>>, details |-> <<"a","b">>, amount |-> <<"-","5">>,
        dc |-> <<"D","R">>, category |-> CatA],
       [date |-> <<>>, details |-> <<>>, amount |-> <<"3">>,
        dc |-> <<"-","1">>, category |-> <<"Z">>],
       [date |-> <<>>, details |-> <<"a","B">>, amount |-> <<"1",",","2",".","5">>,
        dc |-> <<"?">>, category |-> Uncategorized] >>

\* The exports of at most MaxRows consecutive rows of the statement, read
\* as a cycle
Export(first, n) ==
    [k \in 1..n |-> Statement[((first + k - 2) % Len(Statement)) + 1]]

Csv(h, data) ==
    [sent |-> FALSE,
     header |-> [i \in 1..Len(h) |-> h[i].name],
     rows |-> [k \in 1..Len(data) |-> [i \in 1..Len(h) |-> data[k][h[i].kind]]]]

CsvFiles ==
    { Csv(h, Export(first, n)) :
        h \in Headers, first \in 1..Len(Statement), n \in 0..MaxRows }

\* Names typed into "New Category Name" (the empty text is its default)
NewCategoryNames == {CatB, <<>>, Uncategorized}

\* Text typed over a row's Details in the data editor
EditedDetails == <<" ","c">>

\* What st.data_editor can return for the displayed debits: the same rows
\* (_orig_index is disabled), each either as displayed or with another
\* category picked from the options and its details or typed text.  (Text
\* typed on a row whose category stays is never read, line 220.)
EditedRows(row, store) ==
    { [orig_index |-> row.orig_index, Category |-> row.Category, Details |-> row.Details] }
    \cup
    { [orig_index |-> row.orig_index, Category |-> c, Details |-> d] :
        c \in Keys(store) \ {row.Category}, d \in {row.Details, EditedDetails} }
EditedTables(debits, store) ==
    { e \in [1..Len(debits) -> UNION {EditedRows(debits[k], store) : k \in 1..Len(debits)}] :
        \A k \in 1..Len(debits) : e[k] \in EditedRows(debits[k], store) }

\* Edit batches handed to the reconciliation loop from outside the editor:
\* any ids, known or not
ExternalBatches(store) ==
    UNION { [1..n -> { [orig_index |-> id, Category |-> c, Details |-> <<"a","b">>] :
                          id \in 0..MaxRows, c \in Keys(store) }] : n \in 1..2 }

----------------------------------------------------------------------------
(* Loading an upload *)

\* clean_transactions of every upload of the model, evaluated once
CleanedUploads ==
    LET cleaned == [csv \in CsvFiles |-> clean_transactions(csv)]
    IN cleaned @@ cleaned

\* Line 144 on the cleaned table t.  Line 79 raises on a table without
\* rows, where DataFrame.apply returns a frame that cannot be assigned to
\* one column.
categorize_cleaned(t, store) ==
    IF t.err # "none" THEN t
    ELSE IF t.rows = <<>> /\ \E i \in 1..Len(store) : Active(store[i])
    THEN Failed("Exception")
    ELSE Loaded(categorize_transactions(t.rows, store))

\* load_transactions of an upload
load_transactions(csv, store) ==
    categorize_cleaned(CleanedUploads[[csv EXCEPT !.sent = FALSE]], store)

----------------------------------------------------------------------------
(* Script runs *)

NoTable == [err |-> "unset", rows |-> <<>>]
NoCrash == [happened |-> FALSE]

Init ==
    /\ file \in PersistedFiles
    /\ categories = InitCategoryStorage(DefaultCategories, file)
    /\ uploaded \in CsvFiles
    /\ df = NoTable
    /\ debits_df = <<>>
    /\ count = 0
    /\ lastOp = "Start"
    /\ outcome = "info"
    /\ changes = <<>>
    /\ crash = NoCrash
    /\ mutated = FALSE
    /\ mutations = 0
    /\ startFile = file

\* A script run that presses no button (lines 16-24, then main up to the
\* tabs): load the file again and overwrite the session's debits
Display(op, csv, keep) ==
    LET store == InitCategoryStorage(categories, file)
        res == load_transactions(csv, store)
    IN /\ categories' = store
       /\ uploaded' = csv
       /\ df' = res
       /\ debits_df' = IF res.err = "none" THEN Debits(res.rows) ELSE debits_df
       /\ outcome' = res.err
       /\ lastOp' = op
       /\ count' = 0
       /\ changes' = IF keep THEN changes ELSE <<>>
       /\ crash' = NoCrash
       /\ mutated' = FALSE
       /\ UNCHANGED <<file, mutations, startFile>>

\* The user hands the CSV to st.file_uploader
Upload ==
    /\ ~uploaded.sent
    /\ Display("Upload", [uploaded EXCEPT !.sent = TRUE], FALSE)

\* Any interaction that presses neither button
Rerun ==
    /\ uploaded.sent
    /\ Display("Rerun", uploaded, TRUE)

\* A new session: empty session state, lines 16-24
Restart ==
    /\ categories' = InitCategoryStorage(DefaultCategories, file)
    /\ uploaded' = [uploaded EXCEPT !.sent = FALSE]
    /\ df' = NoTable
    /\ debits_df' = <<>>
    /\ count' = 0
    /\ lastOp' = "Start"
    /\ outcome' = "info"
    /\ changes' = <<>>
    /\ crash' = NoCrash
    /\ mutated' = FALSE
    /\ startFile' = file
    /\ UNCHANGED <<file, mutations>>

\* The Add button, lines 178-183; st.rerun() starts the script again
AddCategory(new_cat) ==
    LET store == InitCategoryStorage(categories, file)
        res == load_transactions(uploaded, store)
    IN /\ uploaded.sent
       /\ IF new_cat \notin Keys(store)
          THEN LET added == Append(store, [name |-> new_cat, kws |-> <<>>])
                   saved == save_categories(added)
                   again == InitCategoryStorage(added, saved)
                   res2 == load_transactions(uploaded, again)
               IN /\ mutations < MaxMutations
                  /\ res.err = "none"
                  /\ file' = saved
                  /\ categories' = again
                  /\ df' = res2
                  /\ debits_df' = IF res2.err = "none" THEN Debits(res2.rows)
                                   ELSE Debits(res.rows)
                  /\ outcome' = res2.err
                  /\ lastOp' = "AddCategory"
                  /\ mutated' = TRUE
                  /\ mutations' = mutations + 1
          ELSE /\ res.err = "none"
               /\ categories' = store
               /\ df' = res
               /\ debits_df' = Debits(res.rows)
               /\ outcome' = "none"
               /\ lastOp' = "AddExisting"
               /\ mutated' = FALSE
               /\ UNCHANGED <<file, mutations>>
       /\ count' = 0
       /\ changes' = <<>>
       /\ crash' = NoCrash
       /\ UNCHANGED <<uploaded, startFile>>

\* One run of the reconciliation loop over a batch
Reconcile(op, edited, store, res) ==
    LET r == apply_changes(Debits(res.rows), store, file, edited)
    IN /\ categories' = r.categories
       /\ file' = r.file
       /\ df' = res
       /\ debits_df' = r.debits
       /\ count' = IF r.err = "none" THEN r.count ELSE 0
       /\ outcome' = r.err
       /\ changes' = r.changes
       /\ lastOp' = op
       /\ crash' = NoCrash
       /\ mutated' = (r.categories # store)
       /\ mutations' = IF r.categories # store THEN mutations + 1 ELSE mutations
       /\ UNCHANGED <<uploaded, startFile>>

\* The Apply Changes button, lines 210-225, on what the editor returned
ApplyChanges ==
    LET store == InitCategoryStorage(categories, file)
        res == load_transactions(uploaded, store)
    IN /\ uploaded.sent
       /\ mutations < MaxMutations
       /\ res.err = "none"
       /\ \E edited \in EditedTables(Debits(res.rows), store) :
             Reconcile("Apply", edited, store, res)

\* The same loop on a batch that did not come from the editor
ApplyExternal ==
    LET store == InitCategoryStorage(categories, file)
        res == load_transactions(uploaded, store)
    IN /\ uploaded.sent
       /\ mutations < MaxMutations
       /\ res.err = "none"
       /\ \E edited \in ExternalBatches(store) :
             Reconcile("ApplyExternal", edited, store, res)

\* The process dies inside the save_categories of an Add, and a new
\* session starts on what is left on disk
CrashInSave(new_cat) ==
    LET store == InitCategoryStorage(categories, file)
        res == load_transactions(uploaded, store)
        added == Append(store, [name |-> new_cat, kws |-> <<>>])
    IN /\ uploaded.sent
       /\ mutations < MaxMutations
       /\ new_cat \notin Keys(store)
       /\ res.err = "none"
       /\ \E k \in 0..(Len(added) - 1) :
             /\ file' = CrashedSave(added, k)
             /\ startFile' = CrashedSave(added, k)
             /\ categories' = InitCategoryStorage(DefaultCategories, CrashedSave(added, k))
       /\ crash' = [happened |-> TRUE, old |-> file, new |-> save_categories(added)]
       /\ uploaded' = [uploaded EXCEPT !.sent = FALSE]
       /\ df' = NoTable
       /\ debits_df' = <<>>
       /\ count' = 0
       /\ lastOp' = "Start"
       /\ outcome' = "info"
       /\ changes' = <<>>
       /\ mutated' = FALSE
       /\ mutations' = mutations + 1

Next ==
    \/ Upload
    \/ Rerun
    \/ Restart
    \/ \E n \in NewCategoryNames : AddCategory(n)
    \/ ApplyChanges
    \/ \E n \in NewCategoryNames : CrashInSave(n)

Spec == Init /\ [][Next]_vars

NextExternal == Upload \/ Rerun \/ Restart \/ ApplyExternal

SpecExternal == Init /\ [][NextExternal]_vars

----------------------------------------------------------------------------
(* Vocabulary of the properties *)

\* The last script run loaded the CSV and categorized it with the store as
\* it is now
Categorized ==
    /\ lastOp \in {"Upload", "Rerun", "AddCategory", "AddExisting"}
    /\ outcome = "none"

\* Category store[i] has a keyword that occurs in the details, ignoring case
ContainsKeyword(store, i, details) ==
    /\ store[i].name # Uncategorized
    /\ \E j \in 1..Len(store[i].kws) :
          Contains(Lower(store[i].kws[j]), Lower(details))

\* ... a keyword that, trimmed of surrounding whitespace, occurs in them
ContainsTrimmedKeyword(store, i, details) ==
    /\ store[i].name # Uncategorized
    /\ \E j \in 1..Len(store[i].kws) :
          Contains(Strip(Lower(store[i].kws[j])), Lower(details))

Last(S) == CHOOSE i \in S : \A j \in S : j <= i

PlainMatches(details) ==
    {i \in 1..Len(categories) : ContainsKeyword(categories, i, details)}
TrimmedMatches(details) ==
    {i \in 1..Len(categories) : ContainsTrimmedKeyword(categories, i, details)}

----------------------------------------------------------------------------
(* C1 *)

\* C1 as stated: a transaction whose details contain, ignoring case, a
\* keyword of two or more categories other than "Uncategorized" gets the
\* last of those categories in the store's order.
C1_LastContainingCategoryWins ==
    Categorized =>
        \A k \in 1..Len(df.rows) :
            Cardinality(PlainMatches(df.rows[k].Details)) >= 2 =>
                df.rows[k].Category
                    = categories[Last(PlainMatches(df.rows[k].Details))].name

\* C1 amended: a keyword matches when its whitespace-trimmed, lower-cased
\* form occurs in the lower-cased details (so a keyword of blanks matches
\* every transaction); among two or more matching categories other than
\* "Uncategorized" the last one in the store's order is assigned.
C1_LastTrimmedMatchWins ==
    Categorized =>
        \A k \in 1..Len(df.rows) :
            Cardinality(TrimmedMatches(df.rows[k].Details)) >= 2 =>
                df.rows[k].Category
                    = categories[Last(TrimmedMatches(df.rows[k].Details))].name

\* A categorized transaction that matches several categories and sits in
\* the last of them, not the first
C1_Witness ==
    /\ Categorized
    /\ \E k \in 1..Len(df.rows) :
          LET m == TrimmedMatches(df.rows[k].Details)
          IN /\ Cardinality(m) >= 2
             /\ df.rows[k].Category = categories[Last(m)].name
             /\ \E i \in m : categories[i].name # df.rows[k].Category

----------------------------------------------------------------------------
(* C2 *)

AmountColumn(csv) ==
    CHOOSE i \in 1..Len(csv.header) :
        Strip(csv.header[i])
            = find_col([c \in 1..Len(csv.header) |-> Strip(csv.header[c])],
                       AmountKeywords)

\* 0-based positions, in the file, of the rows whose amount parses
ParsingPositions(csv) ==
    {p \in 0..(Len(csv.rows) - 1) :
        ~parse_amount(csv.rows[p + 1][AmountColumn(csv)]).nan}

IdsDistinct(rows) ==
    \A k, l \in 1..Len(rows) : k # l => rows[k].orig_index # rows[l].orig_index

\* C2 as stated: the ids of a loaded table are pairwise distinct and each
\* row's id is its 0-based position among the rows that survive the amount
\* filter.
C2_IdIsPositionAfterFilter ==
    df.err = "none" =>
        /\ IdsDistinct(df.rows)
        /\ \A k \in 1..Len(df.rows) : df.rows[k].orig_index = k - 1

\* C2 amended: the ids of a loaded table are pairwise distinct and each
\* row's id is the 0-based position the row had in the file, before the
\* amount filter: the ids, in table order, are exactly the positions of the
\* rows whose amount parses, in increasing order.
C2_IdIsPositionInFile ==
    df.err = "none" =>
        /\ IdsDistinct(df.rows)
        /\ {df.rows[k].orig_index : k \in 1..Len(df.rows)} = ParsingPositions(uploaded)
        /\ \A k \in 1..(Len(df.rows) - 1) :
              df.rows[k].orig_index < df.rows[k + 1].orig_index

\* A loaded table with a surviving row behind a dropped one
C2_Witness ==
    /\ df.err = "none"
    /\ \E k \in 1..Len(df.rows) : df.rows[k].orig_index > k - 1

----------------------------------------------------------------------------
(* C3 *)

\* C3: every transaction's category is a key of the store, and the store
\* has the key "Uncategorized".
C3_CategoriesAreStoreKeys ==
    /\ Uncategorized \in Keys(categories)
    /\ \A k \in 1..Len(df.rows) : df.rows[k].Category \in Keys(categories)
    /\ \A k \in 1..Len(debits_df) : debits_df[k].Category \in Keys(categories)

----------------------------------------------------------------------------
(* C4 *)

----------------------------------------------------------------------------
(* C5 *)

Stripped(csv) == [c \in 1..Len(csv.header) |-> Strip(csv.header[c])]

\* Details and Amount resolve, no debit/credit-like column
NoDebitCreditColumn(csv) ==
    /\ find_col(Stripped(csv), DetailsKeywords) # None
    /\ find_col(Stripped(csv), AmountKeywords) # None
    /\ find_col(Stripped(csv), DebitCreditKeywords) = None

\* C5: a CSV without a debit/credit-like column loads, and every row is a
\* Debit when its amount as written is negative and a Credit otherwise.
C5_SignDecidesWithoutColumn ==
    (lastOp \in {"Upload", "Rerun"} /\ NoDebitCreditColumn(uploaded)) =>
        /\ df.err = "none"
        /\ \A k \in 1..Len(df.rows) :
              LET cell == uploaded.rows[df.rows[k].orig_index + 1][AmountColumn(uploaded)]
              IN df.rows[k].DebitCredit
                    = IF parse_amount(cell).val < 0 THEN "Debit" ELSE "Credit"

----------------------------------------------------------------------------
(* C6 *)

InSync == file.kind = "json" /\ json_load(file.doc) = categories

\* C6: after a script run that changed the store (a category added, a
\* keyword appended) the file parses to the store in memory; and whenever
\* the file parses, it parses to the store in memory.
C6_WriteThrough ==
    /\ mutated => InSync
    /\ file.kind = "json" => InSync

\* Apply Changes has appended a keyword
C6_Witness ==
    /\ mutated
    /\ lastOp = "Apply"
    /\ InSync

----------------------------------------------------------------------------
(* C7 *)

\* C7: after a crash inside save_categories the file holds the complete
\* old content or the complete new content.
C7_SaveIsCrashAtomic ==
    crash.happened => file \in {crash.old, crash.new}

----------------------------------------------------------------------------
(* C8 *)

\* The debit rows whose category Apply Changes changed: the session's table
\* against the table as loaded in the same run
ChangedRows ==
    {k \in 1..Len(debits_df) : debits_df[k].Category # Debits(df.rows)[k].Category}

Applied == lastOp = "Apply" /\ outcome = "none"

Reloaded == json_load(file.doc)

Learned(category, keyword) ==
    /\ file.kind = "json"
    /\ category \in Keys(Reloaded)
    /\ keyword \in SeqSet(Keywords(Reloaded, category))

\* The Details text of the edited row with this id
EditedText(id) ==
    changes[CHOOSE c \in 1..Len(changes) : changes[c].id = id].details

\* C8 as stated: every change of category is counted, and the store
\* reloaded from the file has the transaction's trimmed details among the
\* new category's keywords.
C8_DetailsLearned ==
    Applied =>
        /\ count = Cardinality(ChangedRows)
        /\ \A k \in ChangedRows :
              Learned(debits_df[k].Category, debits_df[k].Details)

\* C8 amended: every change of category is counted, and the store reloaded
\* from the file has the edited row's Details text, trimmed, among the new
\* category's keywords, provided that text is not empty.
C8_EditedTextLearned ==
    Applied =>
        /\ count = Cardinality(ChangedRows)
        /\ \A k \in ChangedRows :
              LET text == Strip(EditedText(debits_df[k].orig_index))
              IN text # <<>> => Learned(debits_df[k].Category, text)

\* A counted change whose text was learned
C8_Witness ==
    /\ Applied
    /\ count > 0
    /\ \E k \in ChangedRows :
          LET text == Strip(EditedText(debits_df[k].orig_index))
          IN text # <<>> /\ Learned(debits_df[k].Category, text)

----------------------------------------------------------------------------
(* C9 *)

Unparseable(f) == f.kind \in {"corrupt", "partial"}

\* C9 as stated: a session that began on an unparseable file starts with
\* the default store, and after every press of Add in that session the file
\* holds the store in memory.
C9_EveryAddPersisted ==
    Unparseable(startFile) =>
        /\ lastOp = "Start" => categories = DefaultCategories
        /\ lastOp \in {"AddCategory", "AddExisting"} => InSync

\* C9 amended: a session that began on an unparseable file starts with the
\* default store and keeps it until the store is changed; every Add that
\* inserts a category (its name is no key yet) leaves the file holding the
\* store in memory.
C9_CorruptStoreRecovery ==
    Unparseable(startFile) =>
        /\ lastOp = "Start" => categories = DefaultCategories
        /\ file = startFile => categories = DefaultCategories
        /\ lastOp = "AddCategory" => InSync /\ Len(categories) >= 2

\* A category added in a session that began on an unparseable file
C9_Witness ==
    /\ Unparseable(startFile)
    /\ lastOp = "AddCategory"
    /\ InSync
    /\ Uncategorized \in Keys(categories)

----------------------------------------------------------------------------
(* C10 *)

RowWithId(id) == debits_df[CHOOSE k \in 1..Len(debits_df) : debits_df[k].orig_index = id]

Reran == lastOp = "Rerun" /\ outcome = "none"

\* C10 as stated: after Apply Changes and a rerun, every recategorized
\* transaction is in the category it was moved to.
C10_EditSurvivesRerun ==
    Reran => \A c \in 1..Len(changes) : RowWithId(changes[c].id).Category = changes[c].new

\* The cases in which the move is learned and not overridden
Survives(c) ==
    /\ c.new # Uncategorized
    /\ Strip(c.details) # <<>>
    /\ Contains(Lower(Strip(c.details)), Lower(RowWithId(c.id).Details))
    /\ \A i \in TrimmedMatches(RowWithId(c.id).Details) :
          i <= KeyIndex(categories, c.new)

\* C10 amended: the transaction is in the category it was moved to provided
\* that category is not "Uncategorized", the edited row's Details text is
\* not empty after trimming and occurs (ignoring case) in the transaction's
\* details, and no category later in the store has a matching keyword.
C10_LearnedEditSurvivesRerun ==
    Reran =>
        \A c \in 1..Len(changes) :
            Survives(changes[c]) => RowWithId(changes[c].id).Category = changes[c].new

\* A recategorization that survived the rerun
C10_Witness ==
    /\ Reran
    /\ \E c \in 1..Len(changes) :
          /\ Survives(changes[c])
          /\ RowWithId(changes[c].id).Category = changes[c].new
          /\ changes[c].old # changes[c].new

====
